---- MODULE Spec2Model ----
(***************************************************************************)
(* Fuzzy task matching of the voice-command route.                         *)
(*                                                                         *)
(* Strings are sequences of one-character strings.  A similarity score is  *)
(* a JavaScript number; the model keeps it as an exact fraction            *)
(* [num, den] with den > 0, and den = 0 stands for a value that is not a   *)
(* finite number (NaN, Infinity).  The specifications share the variables: *)
(*   SpecSim   calls calculateSimilarity on a pair of strings;             *)
(*   SpecLev   calls levenshteinDistance on a pair of strings;             *)
(*   Spec      runs the matching loop of POST /api/voice-command over the  *)
(*             task list the storage returns;                              *)
(*   FairSpec  is Spec with the loop running to its end once started;      *)
(*   SpecConc  runs two activations of the handler at the same time;       *)
(*   SpecConfig runs the routes that call saveMicrosoftConfig;             *)
(*   SpecSync  runs syncWithMicrosoftTodo once over a stored table;        *)
(*   SpecVoice, FairSpecVoice follow a voice command from the request to   *)
(*             the response, the matching being a choice of the task;      *)
(*   SpecMem   calls the task methods of a MemStorage;                     *)
(*   SpecSpeech calls a SpeechRecognitionService and fires the events of   *)
(*             the browser.                                                *)
(***************************************************************************)
EXTENDS Integers, Sequences, FiniteSets, TLC

VARIABLES str1, str2, similarity, levDistance, pcSim,
          tasks, pc, searchTitle, fetched, idx, bestMatch, bestSimilarity,
          calls, result, reqs,
          microsoftConfig, saves,
          tasksTable, tasksSerial, tasksBefore, sync,
          voiceCommands, voice,
          memTasks, currentTaskId, memCall,
          isListening, recognition, startCall

simVars == <<str1, str2, similarity, levDistance, pcSim>>
matchVars == <<tasks, pc, searchTitle, fetched, idx, bestMatch, bestSimilarity,
               calls, result>>
\* the variables of one handler activation
localVars == <<pc, searchTitle, fetched, idx, bestMatch, bestSimilarity,
               calls, result>>
\* the handler activations that run at the same time
concVars == <<reqs>>
coreVars == <<simVars, matchVars, concVars>>
\* the microsoft_config table and the saveMicrosoftConfig calls in progress
configVars == <<microsoftConfig, saves>>
\* the variables of the parts outside the matcher
\* the tasks table with its serial, its rows when the sync began, and the
\* locals of syncWithMicrosoftTodo
syncVars == <<tasksTable, tasksSerial, tasksBefore, sync>>
\* the voice_commands table and the locals of the voice-command handler
voiceVars == <<voiceCommands, voice>>
\* the fields of a MemStorage and what its last call returned
memVars == <<memTasks, currentTaskId, memCall>>
\* the fields of a SpeechRecognitionService, the browser's recognition
\* object and what the last start() returned
speechVars == <<isListening, recognition, startCall>>
libVars == <<memVars, speechVars>>
extVars == <<configVars, syncVars, voiceVars, libVars>>
vars == <<str1, str2, similarity, levDistance, pcSim,
          tasks, pc, searchTitle, fetched, idx, bestMatch, bestSimilarity,
          calls, result, reqs, extVars>>

(***************************************************************************)
(* Bounds and input universes                                              *)
(***************************************************************************)
\* longest string the pure-function specification enumerates
MaxLen == 3
\* longest task list the storage holds in the handler specification
MaxTasks == 2
\* most pages the Graph API returns for the default task list
MaxPages == 2
\* most voice-command requests with a transcription in one behaviour
MaxCommands == 2
\* most ids a MemStorage hands out in one behaviour
MaxIds == 3
\* most calls of SpeechRecognitionService.start in one behaviour
MaxStarts == 3

\* characters of the enumerated strings: two letters, an upper-case letter, a blank
Chars == {"a", "b", "A", " "}

RECURSIVE StringsOfLen(_)
StringsOfLen(n) ==
  IF n = 0 THEN {<<>>}
  ELSE {Append(s, c) : s \in StringsOfLen(n - 1), c \in Chars}

Strings == UNION {StringsOfLen(n) : n \in 0..MaxLen}

\* the strings of the documented examples
BuyMilk == <<"B","u","y"," ","m","i","l","k">>
BuyMilkAndEggs == <<"B","u","y"," ","m","i","l","k"," ","a","n","d"," ","e","g","g","s">>
Unrelated == <<"c","o","m","p","l","e","t","e","l","y"," ","u","n","r","e","l","a","t","e","d"," ","t","e","x","t">>
Examples == {BuyMilk, BuyMilkAndEggs, Unrelated}

(***************************************************************************)
(* Numbers                                                                 *)
(***************************************************************************)
Max(a, b) == IF a >= b THEN a ELSE b
Min(a, b) == IF a <= b THEN a ELSE b

\* the value of an arithmetic expression over a table cell that was never written
NaN == -1

\* the element of a one-element set; The({e(x) : x \in {v}}) is e(v) with v
\* evaluated once, the way a const of the code is (evaluation order only)
The(S) == CHOOSE r \in S : TRUE

Frac(n, d) == [num |-> n, den |-> d]
IsNumber(x) == x.den > 0
\* JavaScript comparisons: false as soon as one side is not a number
Gt(x, y) == IsNumber(x) /\ IsNumber(y) /\ x.num * y.den > y.num * x.den
Eq(x, y) == IsNumber(x) /\ IsNumber(y) /\ x.num * y.den = y.num * x.den
Geq(x, y) == Gt(x, y) \/ Eq(x, y)

Zero == Frac(0, 1)
One == Frac(1, 1)
ContainsScore == Frac(8, 10)
MinSimilarity == Frac(5, 10)

(***************************************************************************)
(* String primitives                                                       *)
(***************************************************************************)
IsSpace(c) == c = " "

LowerChar(c) ==
  CASE c = "A" -> "a"
    [] c = "B" -> "b"
    [] OTHER -> c

toLowerCase(s) == [i \in 1..Len(s) |-> LowerChar(s[i])]

NonSpaceAt(s) == {i \in 1..Len(s) : ~IsSpace(s[i])}
SetMin(S) == CHOOSE x \in S : \A y \in S : x <= y
SetMax(S) == CHOOSE x \in S : \A y \in S : x >= y

trim(s) ==
  IF NonSpaceAt(s) = {} THEN <<>>
  ELSE SubSeq(s, SetMin(NonSpaceAt(s)), SetMax(NonSpaceAt(s)))

\* String.prototype.includes: t occurs in s as a contiguous block
includes(s, t) ==
  \E i \in 1..(Len(s) - Len(t) + 1) : SubSeq(s, i, i + Len(t) - 1) = t

\* String.prototype.split(/\s+/): the pieces between maximal runs of blanks
RECURSIVE SplitFrom(_, _, _, _)
SplitFrom(s, i, cur, acc) ==
  IF i > Len(s) THEN Append(acc, cur)
  ELSE IF IsSpace(s[i])
       THEN IF i > 1 /\ IsSpace(s[i - 1])
            THEN SplitFrom(s, i + 1, cur, acc)
            ELSE SplitFrom(s, i + 1, <<>>, Append(acc, cur))
       ELSE SplitFrom(s, i + 1, Append(cur, s[i]), acc)

split(s) == SplitFrom(s, 1, <<>>, <<>>)

(***************************************************************************)
(* levenshteinDistance: matrix is a sequence of rows, row i of the code    *)
(* being matrix[i + 1] and column j its element j + 1.  The table is       *)
(* filled in the order of the loops; a cell read before it is written      *)
(* yields NaN, and so does a store into a row that does not exist (the     *)
(* call throws).                                                           *)
(***************************************************************************)
\* variant: the position is taken as 1-based
charAtOneBased(s, k) == IF k \in 1..Len(s) THEN s[k] ELSE ""

\* String.prototype.charAt with a 0-based position
charAt(s, k) == IF k + 1 \in 1..Len(s) THEN s[k + 1] ELSE ""

Cell(matrix, i, j) ==
  IF i + 1 \in 1..Len(matrix) /\ j + 1 \in 1..Len(matrix[i + 1])
  THEN matrix[i + 1][j + 1]
  ELSE NaN

Plus1(v) == IF v = NaN THEN NaN ELSE v + 1
Min3(a, b, c) == IF a = NaN \/ b = NaN \/ c = NaN THEN NaN ELSE Min(a, Min(b, c))

\* variant: the second loop stores 0 in every cell of row 0
InitMatrixZeroRow(s1, s2) ==
  [i \in 1..(Len(s2) + 1) |->
     IF i = 1 THEN [j \in 1..(Len(s1) + 1) |-> 0] ELSE <<i - 1>>]

\* variant: the first loop stops one row short (i < str2.length)
InitMatrixShort(s1, s2) ==
  [i \in 1..Len(s2) |->
     IF i = 1 THEN [j \in 1..(Len(s1) + 1) |-> j - 1] ELSE <<i - 1>>]

\* the table after the two initialisation loops: matrix[i] = [i], matrix[0][j] = j
InitMatrix(s1, s2) ==
  [i \in 1..(Len(s2) + 1) |->
     IF i = 1 THEN [j \in 1..(Len(s1) + 1) |-> j - 1] ELSE <<i - 1>>]

\* variant: the step from the left neighbour costs 2
CellValueLeftTwo(s1, s2, matrix, i, j) ==
  IF charAt(s2, i - 1) = charAt(s1, j - 1)
  THEN Cell(matrix, i - 1, j - 1)
  ELSE Min3(Plus1(Cell(matrix, i - 1, j - 1)),
            Plus1(Plus1(Cell(matrix, i, j - 1))),
            Plus1(Cell(matrix, i - 1, j)))

\* variant: a substitution costs 2
CellValueSubstitutionTwo(s1, s2, matrix, i, j) ==
  IF charAt(s2, i - 1) = charAt(s1, j - 1)
  THEN Cell(matrix, i - 1, j - 1)
  ELSE Min3(Plus1(Plus1(Cell(matrix, i - 1, j - 1))),
            Plus1(Cell(matrix, i, j - 1)),
            Plus1(Cell(matrix, i - 1, j)))

\* the value the loop body stores in matrix[i][j]
CellValue(s1, s2, matrix, i, j) ==
  IF charAt(s2, i - 1) = charAt(s1, j - 1)
  THEN Cell(matrix, i - 1, j - 1)
  ELSE Min3(Plus1(Cell(matrix, i - 1, j - 1)),
            Plus1(Cell(matrix, i, j - 1)),
            Plus1(Cell(matrix, i - 1, j)))

\* the inner loop over j for row i; the next column is the length of the row
RECURSIVE FillRow(_, _, _, _)
FillRow(s1, s2, i, matrix) ==
  IF i + 1 \notin 1..Len(matrix) THEN matrix
  ELSE IF Len(matrix[i + 1]) > Len(s1) THEN matrix
  ELSE The({FillRow(s1, s2, i, m) :
              m \in {[matrix EXCEPT ![i + 1] =
                        Append(@, CellValue(s1, s2, matrix, i, Len(matrix[i + 1])))]}})

\* the outer loop over i
RECURSIVE FillRows(_, _, _, _)
FillRows(s1, s2, i, matrix) ==
  IF i > Len(s2) THEN matrix
  ELSE The({FillRows(s1, s2, i + 1, m) : m \in {FillRow(s1, s2, i, matrix)}})

\* the three loops and the return, on the values of the arguments
distanceOf(s1, s2) ==
  The({Cell(FillRows(s1, s2, 1, m), Len(s2), Len(s1)) : m \in {InitMatrix(s1, s2)}})

levenshteinDistance(a, b) ==
  The({distanceOf(s1, s2) : s1 \in {a}, s2 \in {b}})

(***************************************************************************)
(* calculateSimilarity                                                     *)
(***************************************************************************)
\* largest edit distance at which two words still count as matching
MaxWordDistance == 2
\* weights of the word and of the character similarity, in tenths
WordWeight == 7
CharWeight == 3

wordsMatch(word1, word2) ==
  \/ includes(word1, word2)
  \/ includes(word2, word1)
  \/ LET d == levenshteinDistance(word1, word2) IN d # NaN /\ d <= MaxWordDistance

\* the words of words1 that have a matching word in words2
matchingWords(words1, words2) ==
  Cardinality({k \in 1..Len(words1) :
                 \E l \in 1..Len(words2) : wordsMatch(words1[k], words2[l])})

\* variant: the matching words are divided by the smaller word count
wordSimilarityMin(words1, words2) ==
  Frac(matchingWords(words1, words2), Min(Len(words1), Len(words2)))

wordSimilarity(words1, words2) ==
  Frac(matchingWords(words1, words2), Max(Len(words1), Len(words2)))

\* 1 - (distance / maxLen)
charSimilarityOf(distance, maxLen) ==
  IF distance = NaN THEN Frac(0, 0) ELSE Frac(maxLen - distance, maxLen)

charSimilarity(s1, s2) ==
  The({charSimilarityOf(distance, Max(Len(s1), Len(s2))) :
         distance \in {levenshteinDistance(s1, s2)}})

\* variant: the two weights are exchanged
weightedAverageSwapped(w, c) ==
  Frac(CharWeight * w.num * c.den + WordWeight * c.num * w.den, 10 * w.den * c.den)

\* (wordSimilarity * 0.7) + (charSimilarity * 0.3)
weightedAverage(w, c) ==
  Frac(WordWeight * w.num * c.den + CharWeight * c.num * w.den, 10 * w.den * c.den)

normalize(s) == trim(toLowerCase(s))

\* the weighted blend of the word and the character similarity
blend(s1, s2) ==
  The({The({weightedAverage(w, c) :
              w \in {wordSimilarity(words1, words2)}, c \in {charSimilarity(s1, s2)}}) :
         words1 \in {split(s1)}, words2 \in {split(s2)}})

\* variant: no test for equal strings
similarityOfNoExact(s1, s2) ==
  IF includes(s1, s2) \/ includes(s2, s1) THEN ContainsScore
  ELSE blend(s1, s2)

\* variant: containment is tested in one direction only
similarityOfOneWay(s1, s2) ==
  IF s1 = s2 THEN One
  ELSE IF includes(s1, s2) THEN ContainsScore
  ELSE blend(s1, s2)

\* the score of two normalised strings
similarityOf(s1, s2) ==
  IF s1 = s2 THEN One
  ELSE IF includes(s1, s2) \/ includes(s2, s1) THEN ContainsScore
  ELSE blend(s1, s2)

\* variant: the arguments are lowercased and not trimmed
calculateSimilarityUntrimmed(a, b) ==
  The({similarityOf(s1, s2) : s1 \in {toLowerCase(a)}, s2 \in {toLowerCase(b)}})

calculateSimilarity(a, b) ==
  The({similarityOf(s1, s2) : s1 \in {normalize(a)}, s2 \in {normalize(b)}})

(***************************************************************************)
(* SpecSim: one call of calculateSimilarity on an enumerated pair          *)
(***************************************************************************)
null == [id |-> 0, title |-> <<>>]

\* the requests in flight at the same time
Requests == {"r1", "r2"}

\* the locals of a handler activation that is not in the matching branch
IdleRequest ==
  [pc |-> "idle", searchTitle |-> <<>>, fetched |-> <<>>, idx |-> 1,
   bestMatch |-> null, bestSimilarity |-> Zero]

ConcIdle == reqs = [r \in Requests |-> IdleRequest]

\* the routes that call saveMicrosoftConfig: POST /api/microsoft-config, the
\* OAuth callback, POST /api/microsoft-test and POST /api/microsoft-logout
Savers == {"config", "callback", "test", "logout"}

\* a route that is not inside saveMicrosoftConfig
IdleSave == [pc |-> "idle", existingConfig |-> {}]

\* the table is empty and no route is saving
ConfigIdle ==
  /\ microsoftConfig = {}
  /\ saves = [c \in Savers |-> IdleSave]

\* syncWithMicrosoftTodo before it is called
IdleSync ==
  [pc |-> "idle", pages |-> 0, allTasks |-> <<>>, microsoftTasks |-> <<>>,
   importedCount |-> 0, imported |-> <<>>, result |-> [syncedCount |-> 0, error |-> "none"]]

SyncIdle ==
  /\ tasksTable = {}
  /\ tasksSerial = 1
  /\ tasksBefore = {}
  /\ sync = IdleSync

\* no row of the tasks table
NoRow == [id |-> 0, microsoftId |-> "none", completed |-> FALSE]
\* no update written
NoUpdate == [id |-> 0, completed |-> FALSE]

\* the voice-command handler before a request
IdleVoice ==
  [pc |-> "idle", status |-> 0, commandId |-> 0, intent |-> "unknown",
   taskData |-> FALSE, aiCompleted |-> "absent", bestMatch |-> NoRow,
   written |-> NoUpdate]

VoiceIdle ==
  /\ voiceCommands = {}
  /\ voice = IdleVoice

\* no call of a MemStorage yet
NoCall == [op |-> "none", id |-> 0, result |-> "none"]

\* new MemStorage()
MemIdle ==
  /\ memTasks = <<>>
  /\ currentTaskId = 1
  /\ memCall = NoCall

\* the recognition object of the browser before any start()
NewRecognition == [state |-> "inactive", callbacks |-> "none", starts |-> 0, heard |-> "none"]

\* no start() yet
NoStart == [n |-> 0, caller |-> "none", returned |-> FALSE]

\* new SpeechRecognitionService() in a browser that has the API
SpeechIdle ==
  /\ isListening = FALSE
  /\ recognition = NewRecognition
  /\ startCall = NoStart

LibIdle == MemIdle /\ SpeechIdle

ExtIdle == ConfigIdle /\ SyncIdle /\ VoiceIdle /\ LibIdle

MatchIdle ==
  /\ tasks = <<>>
  /\ pc = "idle"
  /\ searchTitle = <<>>
  /\ fetched = <<>>
  /\ idx = 1
  /\ bestMatch = null
  /\ bestSimilarity = Zero
  /\ calls = <<>>
  /\ result = null
  /\ ConcIdle
  /\ ExtIdle

InitSim ==
  /\ str1 \in Strings \cup Examples
  /\ str2 \in Strings \cup Examples
  /\ similarity = Zero
  /\ levDistance = 0
  /\ pcSim = "call"
  /\ MatchIdle

CalcSim ==
  /\ pcSim = "call"
  /\ similarity' = calculateSimilarity(str1, str2)
  /\ pcSim' = "returned"
  /\ UNCHANGED <<str1, str2, levDistance>>
  /\ UNCHANGED matchVars
  /\ UNCHANGED concVars
  /\ UNCHANGED extVars

NextSim == CalcSim

SpecSim == InitSim /\ [][NextSim]_vars

(***************************************************************************)
(* SpecLev: one call of levenshteinDistance on an enumerated pair          *)
(***************************************************************************)
InitLev ==
  /\ str1 \in Strings
  /\ str2 \in Strings
  /\ similarity = Zero
  /\ levDistance = 0
  /\ pcSim = "call"
  /\ MatchIdle

CalcLev ==
  /\ pcSim = "call"
  /\ levDistance' = levenshteinDistance(str1, str2)
  /\ pcSim' = "returned"
  /\ UNCHANGED <<str1, str2, similarity>>
  /\ UNCHANGED matchVars
  /\ UNCHANGED concVars
  /\ UNCHANGED extVars

NextLev == CalcLev

SpecLev == InitLev /\ [][NextLev]_vars

(***************************************************************************)
(* Spec: POST /api/voice-command.  The storage starts empty; an add_task   *)
(* command creates a task, an update_task or complete_task command runs    *)
(* the matching loop over the list storage.getTasks() returned and         *)
(* updates the task it selected.  Of a task the model keeps the id and the *)
(* title, the fields the matching reads.                                   *)
(***************************************************************************)
\* the titles a voice command can carry: the empty and the blank title, a
\* title and its variant in case and blanks, and titles whose scores against
\* these are 0, 0.425, 0.5, 0.8 (by containment) and 0.85 (by the blend)
Titles ==
  { <<>>, <<" ">>, <<"a">>, <<"A", " ">>, <<"a", "a">>,
    <<"a", "b", " ", "a">>, <<"b", "b", "b">> }

SimIdle ==
  /\ str1 = <<>>
  /\ str2 = <<>>
  /\ similarity = Zero
  /\ levDistance = 0
  /\ pcSim = "idle"

Init ==
  /\ tasks = <<>>
  /\ pc = "idle"
  /\ searchTitle = <<>>
  /\ fetched = <<>>
  /\ idx = 1
  /\ bestMatch = null
  /\ bestSimilarity = Zero
  /\ calls = <<>>
  /\ result = null
  /\ ConcIdle
  /\ ExtIdle
  /\ SimIdle

\* a call of a storage method that writes, with the id of the task it is about
Call(op, id) == [op |-> op, id |-> id]

InsertAt(seq, k, e) == SubSeq(seq, 1, k - 1) \o <<e>> \o SubSeq(seq, k, Len(seq))

\* intent add_task: storage.createTask; getTasks orders by score and priority,
\* so the new task can stand at any place k of the list
AddTask(title, k) ==
  /\ pc = "idle"
  /\ Len(tasks) < MaxTasks
  /\ \E task \in {[id |-> Len(tasks) + 1, title |-> title]} :
       /\ tasks' = InsertAt(tasks, k, task)
       /\ calls' = <<Call("createTask", task.id), Call("createActivity", task.id)>>
       /\ result' = task
  /\ UNCHANGED <<pc, searchTitle, fetched, idx, bestMatch, bestSimilarity>>
  /\ UNCHANGED simVars
  /\ UNCHANGED concVars
  /\ UNCHANGED extVars

\* intent update_task or complete_task: fetch the tasks, start the loop
StartMatch(title) ==
  /\ pc = "idle"
  /\ fetched' = tasks
  /\ searchTitle' = title
  /\ bestMatch' = null
  /\ bestSimilarity' = Zero
  /\ idx' = 1
  /\ pc' = "scan"
  /\ calls' = <<>>
  /\ result' = null
  /\ UNCHANGED tasks
  /\ UNCHANGED simVars
  /\ UNCHANGED concVars
  /\ UNCHANGED extVars

\* variant: a score equal to the threshold is accepted
isBetterMatchAtThreshold(sim, best) == Gt(sim, best) /\ Geq(sim, MinSimilarity)

\* variant: the score is not compared with the best so far
isBetterMatchAnyAbove(sim, best) == Gt(sim, MinSimilarity)

\* variant: a score equal to the best so far replaces it
isBetterMatchOrEqual(sim, best) == Geq(sim, best) /\ Gt(sim, MinSimilarity)

\* the test that makes a task the best match so far
isBetterMatch(sim, best) == Gt(sim, best) /\ Gt(sim, MinSimilarity)

\* variant: the iteration stores the normalised title in the candidate it scored
MatchStepNormalizing ==
  /\ pc = "scan"
  /\ idx <= Len(fetched)
  /\ \E task \in {fetched[idx]} :
       \E sim \in {calculateSimilarity(task.title, searchTitle)} :
         IF isBetterMatch(sim, bestSimilarity)
         THEN bestMatch' = task /\ bestSimilarity' = sim
         ELSE UNCHANGED <<bestMatch, bestSimilarity>>
  /\ fetched' = [fetched EXCEPT ![idx].title = normalize(@)]
  /\ idx' = idx + 1
  /\ UNCHANGED <<tasks, pc, searchTitle, calls, result>>
  /\ UNCHANGED simVars
  /\ UNCHANGED concVars
  /\ UNCHANGED extVars

\* one iteration of the loop over the fetched tasks
MatchStep ==
  /\ pc = "scan"
  /\ idx <= Len(fetched)
  /\ \E task \in {fetched[idx]} :
       \E sim \in {calculateSimilarity(task.title, searchTitle)} :
         IF isBetterMatch(sim, bestSimilarity)
         THEN bestMatch' = task /\ bestSimilarity' = sim
         ELSE UNCHANGED <<bestMatch, bestSimilarity>>
  /\ idx' = idx + 1
  /\ UNCHANGED <<tasks, pc, searchTitle, fetched, calls, result>>
  /\ UNCHANGED simVars
  /\ UNCHANGED concVars
  /\ UNCHANGED extVars

\* the loop has visited every fetched task
MatchDone ==
  /\ pc = "scan"
  /\ idx > Len(fetched)
  /\ pc' = "done"
  /\ UNCHANGED <<tasks, searchTitle, fetched, idx, bestMatch, bestSimilarity,
                  calls, result>>
  /\ UNCHANGED simVars
  /\ UNCHANGED concVars
  /\ UNCHANGED extVars

\* the handler returns: its local variables are gone
HandlerReturns ==
  /\ searchTitle' = <<>>
  /\ fetched' = <<>>
  /\ idx' = 1
  /\ bestMatch' = null
  /\ bestSimilarity' = Zero

\* storage.updateTask(bestMatch.id, updateData): the title becomes the spoken
\* title unless that is empty
updateTask(list, id, title) ==
  [i \in 1..Len(list) |->
     IF list[i].id = id THEN [list[i] EXCEPT !.title = title] ELSE list[i]]

\* the task storage.updateTask returns: the stored task of that id, if any
taskById(list, id) ==
  IF \E i \in 1..Len(list) : list[i].id = id
  THEN list[CHOOSE i \in 1..Len(list) : list[i].id = id]
  ELSE null

\* variant: the update goes to the first fetched task
UpdateMatchedFirst ==
  /\ pc = "done"
  /\ bestMatch # null
  /\ tasks' = updateTask(tasks, fetched[1].id,
                         IF searchTitle # <<>> THEN searchTitle ELSE bestMatch.title)
  /\ result' = taskById(tasks', fetched[1].id)
  /\ calls' = calls \o <<Call("updateTask", fetched[1].id),
                          Call("createActivity", fetched[1].id)>>
  /\ pc' = "idle"
  /\ HandlerReturns
  /\ UNCHANGED simVars
  /\ UNCHANGED concVars
  /\ UNCHANGED extVars

\* if (bestMatch): updateTask, result = updatedTask, createActivity, res.json
UpdateMatched ==
  /\ pc = "done"
  /\ bestMatch # null
  /\ tasks' = updateTask(tasks, bestMatch.id,
                         IF searchTitle # <<>> THEN searchTitle ELSE bestMatch.title)
  /\ result' = taskById(tasks', bestMatch.id)
  /\ calls' = calls \o <<Call("updateTask", bestMatch.id),
                          Call("createActivity", bestMatch.id)>>
  /\ pc' = "idle"
  /\ HandlerReturns
  /\ UNCHANGED simVars
  /\ UNCHANGED concVars
  /\ UNCHANGED extVars

\* variant: a command that matches no task creates one with the spoken title
RespondNoMatchCreating ==
  /\ pc = "done"
  /\ bestMatch = null
  /\ pc' = "idle"
  /\ HandlerReturns
  /\ tasks' = IF Len(tasks) < MaxTasks
              THEN Append(tasks, [id |-> Len(tasks) + 1, title |-> searchTitle])
              ELSE tasks
  /\ UNCHANGED <<calls, result>>
  /\ UNCHANGED simVars
  /\ UNCHANGED concVars
  /\ UNCHANGED extVars

\* no best match: the branch is skipped and res.json sends the null result
RespondNoMatch ==
  /\ pc = "done"
  /\ bestMatch = null
  /\ pc' = "idle"
  /\ HandlerReturns
  /\ UNCHANGED <<tasks, calls, result>>
  /\ UNCHANGED simVars
  /\ UNCHANGED concVars
  /\ UNCHANGED extVars

Next ==
  \/ \E title \in Titles : \E k \in 1..(Len(tasks) + 1) : AddTask(title, k)
  \/ \E title \in Titles : StartMatch(title)
  \/ MatchStep
  \/ MatchDone
  \/ UpdateMatched
  \/ RespondNoMatch

Spec == Init /\ [][Next]_vars

\* the loop is synchronous code: once started it runs to its end
FairSpec == Spec /\ WF_vars(MatchStep) /\ WF_vars(MatchDone)

(***************************************************************************)
(* SpecConc: two activations of the handler at the same time.  Each has    *)
(* its own tasks, searchTitle, bestMatch and bestSimilarity (they are      *)
(* declared inside the handler); the storage is the one they share.  The   *)
(* model lets the iterations of the two loops interleave freely, which     *)
(* includes the schedule of the event loop, where a loop runs from         *)
(* getTasks to updateTask without giving way.                              *)
(***************************************************************************)
\* the titles of the stored tasks and of the queries: against the query "a"
\* they score 1.0, 0.8 and 0
ConcTitles == { <<"a">>, <<"a", "a">>, <<"b", "b", "b">> }

\* the storage holds two tasks when the requests arrive
StoredLists ==
  { <<[id |-> 1, title |-> t1], [id |-> 2, title |-> t2]>> :
      t1 \in ConcTitles, t2 \in ConcTitles }

InitConc ==
  /\ tasks \in StoredLists
  /\ pc = "idle"
  /\ searchTitle = <<>>
  /\ fetched = <<>>
  /\ idx = 1
  /\ bestMatch = null
  /\ bestSimilarity = Zero
  /\ calls = <<>>
  /\ result = null
  /\ ConcIdle
  /\ ExtIdle
  /\ SimIdle

\* request r enters the matching branch: getTasks, searchTitle, the two lets
FetchTasks(r, title) ==
  /\ reqs[r].pc = "idle"
  /\ reqs' = [reqs EXCEPT ![r] =
                [pc |-> "scan", searchTitle |-> title, fetched |-> tasks, idx |-> 1,
                 bestMatch |-> null, bestSimilarity |-> Zero]]
  /\ UNCHANGED <<tasks, localVars, simVars, extVars>>

\* variant: bestSimilarity is one variable of the module, kept with request r1
bestSoFarShared(r) == reqs["r1"].bestSimilarity

\* the bestSimilarity the loop of request r compares with: its own local
bestSoFar(r) == reqs[r].bestSimilarity

\* one iteration of the loop of request r
ScanTask(r) ==
  /\ reqs[r].pc = "scan"
  /\ reqs[r].idx <= Len(reqs[r].fetched)
  /\ \E task \in {reqs[r].fetched[reqs[r].idx]} :
       \E sim \in {calculateSimilarity(task.title, reqs[r].searchTitle)} :
         reqs' = [reqs EXCEPT
                    ![r].bestMatch = IF isBetterMatch(sim, bestSoFar(r)) THEN task ELSE @,
                    ![r].bestSimilarity = IF isBetterMatch(sim, bestSoFar(r)) THEN sim ELSE @,
                    ![r].idx = @ + 1]
  /\ UNCHANGED <<tasks, localVars, simVars, extVars>>

\* the loop of request r has visited every task it fetched
ScanEnd(r) ==
  /\ reqs[r].pc = "scan"
  /\ reqs[r].idx > Len(reqs[r].fetched)
  /\ reqs' = [reqs EXCEPT ![r].pc = "done"]
  /\ UNCHANGED <<tasks, localVars, simVars, extVars>>

\* request r updates the task it selected and responds
ApplyUpdate(r) ==
  /\ reqs[r].pc = "done"
  /\ reqs[r].bestMatch # null
  /\ tasks' = updateTask(tasks, reqs[r].bestMatch.id,
                         IF reqs[r].searchTitle # <<>> THEN reqs[r].searchTitle
                         ELSE reqs[r].bestMatch.title)
  /\ reqs' = [reqs EXCEPT ![r] = IdleRequest]
  /\ UNCHANGED <<localVars, simVars, extVars>>

\* request r selected nothing and responds
ReportNoMatch(r) ==
  /\ reqs[r].pc = "done"
  /\ reqs[r].bestMatch = null
  /\ reqs' = [reqs EXCEPT ![r] = IdleRequest]
  /\ UNCHANGED <<tasks, localVars, simVars, extVars>>

NextConc ==
  \/ \E r \in Requests : \E title \in ConcTitles : FetchTasks(r, title)
  \/ \E r \in Requests : ScanTask(r)
  \/ \E r \in Requests : ScanEnd(r)
  \/ \E r \in Requests : ApplyUpdate(r)
  \/ \E r \in Requests : ReportNoMatch(r)

SpecConc == InitConc /\ [][NextConc]_vars

(***************************************************************************)
(* SpecConfig: the routes that call saveMicrosoftConfig.  A row of the     *)
(* microsoft_config table is its serial id and the data last written,      *)
(* named after the route that wrote it.  The select and the write are two  *)
(* awaited statements, so the routes interleave between them.              *)
(***************************************************************************)
\* the matcher and the voice-command handler at rest
CoreIdle ==
  /\ tasks = <<>>
  /\ pc = "idle"
  /\ searchTitle = <<>>
  /\ fetched = <<>>
  /\ idx = 1
  /\ bestMatch = null
  /\ bestSimilarity = Zero
  /\ calls = <<>>
  /\ result = null
  /\ ConcIdle
  /\ SimIdle

InitConfig ==
  /\ CoreIdle
  /\ ExtIdle

\* db.select().from(microsoftConfig).limit(1): no row, or one of the rows;
\* of the row found the caller reads the id only
SelectLimit1(rows) == IF rows = {} THEN {{}} ELSE {{row.id} : row \in rows}

\* const existingConfig = await db.select()...
SelectConfig(c) ==
  /\ saves[c].pc = "idle"
  /\ \E found \in SelectLimit1(microsoftConfig) :
       saves' = [saves EXCEPT ![c] = [pc |-> "selected", existingConfig |-> found]]
  /\ UNCHANGED microsoftConfig
  /\ UNCHANGED <<coreVars, libVars, syncVars, voiceVars>>

\* db.update(...).set(configData).where(id = existingConfig[0].id)
UpdateRow(rows, id, data) ==
  {IF row.id = id THEN [row EXCEPT !.data = data] ELSE row : row \in rows}

\* db.insert(...).values(configData): the serial column numbers the rows
InsertRow(rows, data) == rows \cup {[id |-> Cardinality(rows) + 1, data |-> data]}

\* if (existingConfig.length > 0) update, else insert
WriteConfig(c) ==
  /\ saves[c].pc = "selected"
  /\ microsoftConfig' =
       IF saves[c].existingConfig # {}
       THEN UpdateRow(microsoftConfig, The(saves[c].existingConfig), c)
       ELSE InsertRow(microsoftConfig, c)
  /\ saves' = [saves EXCEPT ![c] = IdleSave]
  /\ UNCHANGED <<coreVars, libVars, syncVars, voiceVars>>

NextConfig ==
  \/ \E c \in Savers : SelectConfig(c)
  \/ \E c \in Savers : WriteConfig(c)

SpecConfig == InitConfig /\ [][NextConfig]_vars

(***************************************************************************)
(* SpecSync: one run of syncWithMicrosoftTodo.  A row of the tasks table   *)
(* is its id, its microsoftId ("none" for null) and its completed flag; a  *)
(* remote task is its id and its status.  What the Graph API answers and   *)
(* whether a database statement fails are choices of the environment.      *)
(***************************************************************************)
\* the rows the table can hold when the sync begins: a local task, a linked
\* task completed locally, and a linked task that is no longer remote
StoredRows ==
  { [id |-> 1, microsoftId |-> "none", completed |-> FALSE],
    [id |-> 2, microsoftId |-> "m1", completed |-> TRUE],
    [id |-> 3, microsoftId |-> "m3", completed |-> FALSE] }

RemoteTasks == [id : {"m1", "m2"}, status : {"notStarted", "completed"}]

\* tasksData.value of one page: no task or one task
Batches == {<<>>} \cup {<<t>> : t \in RemoteTasks}

\* the routes whose saveMicrosoftConfig call stores an access token
TokenData == {"callback", "test"}

InitSync ==
  /\ CoreIdle
  /\ microsoftConfig \in {{}} \cup {{[id |-> 1, data |-> d]} : d \in Savers}
  /\ saves = [c \in Savers |-> IdleSave]
  /\ tasksTable \in SUBSET StoredRows
  /\ tasksSerial = Cardinality(StoredRows) + 1
  /\ tasksBefore = {}
  /\ sync = IdleSync
  /\ VoiceIdle
  /\ LibIdle

\* POST /api/sync-microsoft-todo calls syncWithMicrosoftTodo
StartSync ==
  /\ sync.pc = "idle"
  /\ sync' = [sync EXCEPT !.pc = "config"]
  /\ tasksBefore' = tasksTable
  /\ UNCHANGED <<tasksTable, tasksSerial>>
  /\ UNCHANGED <<coreVars, libVars, configVars, voiceVars>>

\* a return of the function with this count and this error
Returns(count, error) ==
  sync' = [sync EXCEPT !.pc = "returned",
                       !.result = [syncedCount |-> count, error |-> error]]

\* const [config] = await db.select()...; if (!config || !config.accessToken)
ReadConfig ==
  /\ sync.pc = "config"
  /\ \E found \in SelectLimit1(microsoftConfig) :
       IF \E row \in microsoftConfig : row.id \in found /\ row.data \in TokenData
       THEN sync' = [sync EXCEPT !.pc = "lists"]
       ELSE Returns(0, "no token")
  /\ UNCHANGED <<tasksTable, tasksSerial, tasksBefore>>
  /\ UNCHANGED <<coreVars, libVars, configVars, voiceVars>>

\* variant: the linked rows are deleted as soon as the lists are there
FetchListsClearing ==
  /\ sync.pc = "lists"
  /\ \E answer \in {"ok", "empty", "401", "error"} :
       CASE answer = "ok" -> sync' = [sync EXCEPT !.pc = "pages"]
         [] answer = "empty" -> Returns(0, "no lists")
         [] answer = "401" -> Returns(0, "authentication expired")
         [] answer = "error" -> Returns(0, "Graph API error")
  /\ tasksTable' = {row \in tasksTable : row.microsoftId = "none"}
  /\ UNCHANGED <<tasksSerial, tasksBefore>>
  /\ UNCHANGED <<coreVars, libVars, configVars, voiceVars>>

\* fetch of /me/todo/lists: not ok (401 or other), no list, or a default list
FetchLists ==
  /\ sync.pc = "lists"
  /\ \E answer \in {"ok", "empty", "401", "error"} :
       CASE answer = "ok" -> sync' = [sync EXCEPT !.pc = "pages"]
         [] answer = "empty" -> Returns(0, "no lists")
         [] answer = "401" -> Returns(0, "authentication expired")
         [] answer = "error" -> Returns(0, "Graph API error")
  /\ UNCHANGED <<tasksTable, tasksSerial, tasksBefore>>
  /\ UNCHANGED <<coreVars, libVars, configVars, voiceVars>>

\* allTasks.filter(task => task.status !== 'completed')
uncompleted(list) == SelectSeq(list, LAMBDA t : t.status # "completed")

\* one turn of while (nextLink): a page that is not ok throws; otherwise its
\* batch is appended and the loop goes on while the page names a next one
FetchPage ==
  /\ sync.pc = "pages"
  /\ \/ Returns(0, "Tasks API error")
     \/ \E batch \in Batches : \E more \in BOOLEAN :
          /\ more => sync.pages + 1 < MaxPages
          /\ sync' = [sync EXCEPT
                        !.pages = @ + 1,
                        !.allTasks = @ \o batch,
                        !.microsoftTasks = IF more THEN @ ELSE uncompleted(sync.allTasks \o batch),
                        !.pc = IF more THEN "pages" ELSE "clear"]
  /\ UNCHANGED <<tasksTable, tasksSerial, tasksBefore>>
  /\ UNCHANGED <<coreVars, libVars, configVars, voiceVars>>

\* an awaited call before the import rejects (network, database): the outer
\* catch returns the error
SyncThrows ==
  /\ sync.pc \in {"config", "lists", "pages", "clear"}
  /\ Returns(0, "exception")
  /\ UNCHANGED <<tasksTable, tasksSerial, tasksBefore>>
  /\ UNCHANGED <<coreVars, libVars, configVars, voiceVars>>

\* variant: every row is deleted
ClearLinkedAll ==
  /\ sync.pc = "clear"
  /\ tasksTable' = {}
  /\ sync' = [sync EXCEPT !.pc = "import"]
  /\ UNCHANGED <<tasksSerial, tasksBefore>>
  /\ UNCHANGED <<coreVars, libVars, configVars, voiceVars>>

\* await db.delete(tasks).where(isNotNull(tasks.microsoftId))
ClearLinked ==
  /\ sync.pc = "clear"
  /\ tasksTable' = {row \in tasksTable : row.microsoftId = "none"}
  /\ sync' = [sync EXCEPT !.pc = "import"]
  /\ UNCHANGED <<tasksSerial, tasksBefore>>
  /\ UNCHANGED <<coreVars, libVars, configVars, voiceVars>>

\* one turn of for (const msTask of microsoftTasks): storage.createTask
\* inserts a row with completed = false, or throws (microsoft_id is unique;
\* the statement can fail) and the inner catch goes on with the next task
ImportTask ==
  /\ sync.pc = "import"
  /\ sync.microsoftTasks # <<>>
  /\ \E msTask \in {Head(sync.microsoftTasks)} :
       \E created \in IF \E row \in tasksTable : row.microsoftId = msTask.id
                       THEN {FALSE} ELSE BOOLEAN :
         IF created
         THEN /\ tasksTable' = tasksTable \cup
                   {[id |-> tasksSerial, microsoftId |-> msTask.id, completed |-> FALSE]}
              /\ tasksSerial' = tasksSerial + 1
              /\ sync' = [sync EXCEPT !.microsoftTasks = Tail(@),
                                      !.importedCount = @ + 1,
                                      !.imported = Append(@, msTask.id)]
         ELSE /\ sync' = [sync EXCEPT !.microsoftTasks = Tail(@)]
              /\ UNCHANGED <<tasksTable, tasksSerial>>
  /\ UNCHANGED tasksBefore
  /\ UNCHANGED <<coreVars, libVars, configVars, voiceVars>>

\* return { syncedCount: importedCount }
ReturnSynced ==
  /\ sync.pc = "import"
  /\ sync.microsoftTasks = <<>>
  /\ Returns(sync.importedCount, "none")
  /\ UNCHANGED <<tasksTable, tasksSerial, tasksBefore>>
  /\ UNCHANGED <<coreVars, libVars, configVars, voiceVars>>

NextSync ==
  \/ StartSync
  \/ ReadConfig
  \/ FetchLists
  \/ FetchPage
  \/ SyncThrows
  \/ ClearLinked
  \/ ImportTask
  \/ ReturnSynced

SpecSync == InitSync /\ [][NextSync]_vars

(***************************************************************************)
(* SpecVoice: POST /api/voice-command from the request to the response.    *)
(* A row of the voice_commands table is its id and its processed flag.     *)
(* The matching loop, followed step by step in Spec, is here the choice of *)
(* one of the tasks getTasks returned, or of none.  What the model answers *)
(* and whether a storage call fails are choices of the environment.        *)
(***************************************************************************)
Intents == {"add_task", "update_task", "complete_task", "set_priority", "unknown"}

\* taskData.completed of the AI response: a boolean, or not there
Completions == {"true", "false", "absent"}

InitVoice ==
  /\ CoreIdle
  /\ ConfigIdle
  /\ tasksTable \in SUBSET StoredRows
  /\ tasksSerial = Cardinality(StoredRows) + 1
  /\ tasksBefore = {}
  /\ sync = IdleSync
  /\ VoiceIdle
  /\ LibIdle

\* the handler is entered; a request without a transcription is answered 400
ReceiveVoiceCommand ==
  /\ voice.pc \in {"idle", "responded"}
  /\ \E transcription \in {"", "t"} :
       IF transcription = ""
       THEN voice' = [IdleVoice EXCEPT !.pc = "responded", !.status = 400]
       ELSE /\ Cardinality(voiceCommands) < MaxCommands
            /\ voice' = [IdleVoice EXCEPT !.pc = "create"]
  /\ UNCHANGED <<voiceCommands, coreVars, libVars, configVars, syncVars>>

\* storage.createVoiceCommand({ transcription, processed: false })
CreateVoiceCommand ==
  /\ voice.pc = "create"
  /\ \E id \in {Cardinality(voiceCommands) + 1} :
       /\ voiceCommands' = voiceCommands \cup {[id |-> id, processed |-> FALSE]}
       /\ voice' = [voice EXCEPT !.pc = "ai", !.commandId = id]
  /\ UNCHANGED <<coreVars, libVars, configVars, syncVars>>

\* processVoiceCommand returns; a failure inside it comes back as "unknown"
ProcessVoiceCommand ==
  /\ voice.pc = "ai"
  /\ \E intent \in Intents, taskData \in BOOLEAN, completed \in Completions :
       /\ ~taskData => completed = "absent"
       /\ voice' = [voice EXCEPT !.pc = "mark", !.intent = intent,
                                 !.taskData = taskData, !.aiCompleted = completed]
  /\ UNCHANGED <<voiceCommands, coreVars, libVars, configVars, syncVars>>

\* a variant that leaves a command of unknown intent as it was stored
MarkVoiceCommandProcessedKnown ==
  /\ voice.pc = "mark"
  /\ voiceCommands' =
       {IF row.id = voice.commandId /\ voice.intent # "unknown"
        THEN [row EXCEPT !.processed = TRUE] ELSE row : row \in voiceCommands}
  /\ voice' = [voice EXCEPT !.pc = "execute"]
  /\ UNCHANGED <<coreVars, libVars, configVars, syncVars>>

\* storage.markVoiceCommandProcessed(voiceCommand.id)
MarkVoiceCommandProcessed ==
  /\ voice.pc = "mark"
  /\ voiceCommands' =
       {IF row.id = voice.commandId
        THEN [row EXCEPT !.processed = TRUE] ELSE row : row \in voiceCommands}
  /\ voice' = [voice EXCEPT !.pc = "execute"]
  /\ UNCHANGED <<coreVars, libVars, configVars, syncVars>>

\* res.json({ success: true, ... })
Responds(status) ==
  voice' = [voice EXCEPT !.pc = "responded", !.status = status]

\* intent add_task with task data: storage.createTask
ExecuteAddTask ==
  /\ voice.pc = "execute"
  /\ voice.intent = "add_task" /\ voice.taskData
  /\ tasksTable' = tasksTable \cup
       {[id |-> tasksSerial, microsoftId |-> "none", completed |-> FALSE]}
  /\ tasksSerial' = tasksSerial + 1
  /\ Responds(200)
  /\ UNCHANGED <<voiceCommands, tasksBefore, sync, coreVars, libVars, configVars>>

\* intent update_task or complete_task with task data: getTasks and the loop
ExecuteFindTask ==
  /\ voice.pc = "execute"
  /\ voice.intent \in {"update_task", "complete_task"} /\ voice.taskData
  /\ \E task \in tasksTable \cup {NoRow} :
       IF task = NoRow
       THEN Responds(200)
       ELSE voice' = [voice EXCEPT !.pc = "update", !.bestMatch = task]
  /\ UNCHANGED <<voiceCommands, coreVars, libVars, configVars, syncVars>>

\* a variant with || in the place of ??
updateDataOr(intent, aiCompleted, task) ==
  [id |-> task.id,
   completed |-> IF intent = "complete_task" THEN TRUE
                 ELSE IF aiCompleted = "true" THEN TRUE ELSE task.completed]

\* updateData.completed, with the id of the task it is written to
updateData(intent, aiCompleted, task) ==
  [id |-> task.id,
   completed |-> IF intent = "complete_task" THEN TRUE
                 ELSE IF aiCompleted # "absent" THEN aiCompleted = "true"
                 ELSE task.completed]

\* storage.updateTask(bestMatch.id, updateData)
ExecuteUpdateTask ==
  /\ voice.pc = "update"
  /\ \E data \in {updateData(voice.intent, voice.aiCompleted, voice.bestMatch)} :
       /\ tasksTable' =
            {IF row.id = data.id
             THEN [row EXCEPT !.completed = data.completed] ELSE row : row \in tasksTable}
       /\ voice' = [voice EXCEPT !.pc = "responded", !.status = 200, !.written = data]
  /\ UNCHANGED <<voiceCommands, tasksSerial, tasksBefore, sync, coreVars, libVars, configVars>>

\* any other intent, or no task data: nothing is executed
ExecuteNothing ==
  /\ voice.pc = "execute"
  /\ ~(voice.intent \in {"add_task", "update_task", "complete_task"} /\ voice.taskData)
  /\ Responds(200)
  /\ UNCHANGED <<voiceCommands, coreVars, libVars, configVars, syncVars>>

\* a storage call rejects: the catch block answers 500
VoiceStorageFails ==
  /\ voice.pc \in {"create", "mark", "execute", "update"}
  /\ voice.pc = "execute" =>
       voice.intent \in {"add_task", "update_task", "complete_task"} /\ voice.taskData
  /\ Responds(500)
  /\ UNCHANGED <<voiceCommands, coreVars, libVars, configVars, syncVars>>

\* the steps of a request the handler has accepted
VoiceStep ==
  \/ CreateVoiceCommand
  \/ ProcessVoiceCommand
  \/ MarkVoiceCommandProcessed
  \/ ExecuteAddTask
  \/ ExecuteFindTask
  \/ ExecuteUpdateTask
  \/ ExecuteNothing
  \/ VoiceStorageFails

NextVoice ==
  \/ ReceiveVoiceCommand
  \/ VoiceStep

SpecVoice == InitVoice /\ [][NextVoice]_vars

\* every awaited call of an accepted request settles
FairSpecVoice == SpecVoice /\ WF_vars(VoiceStep)

(***************************************************************************)
(* SpecMem: a MemStorage under createTask, updateTask and deleteTask.      *)
(* tasks is a function from the keys of the Map to the stored objects; of  *)
(* a task the model keeps the id and the completed flag.  updates is what  *)
(* the caller passes: PATCH /api/tasks/:id passes the body of the request  *)
(* as it came, so it may carry any field of a task, the id among them.     *)
(***************************************************************************)
InitMem ==
  /\ CoreIdle
  /\ ExtIdle

\* the ids a caller may name
Ids == 1..(MaxIds + 1)

\* the objects a caller may pass as updates
Updates ==
  {[completed |-> c] : c \in BOOLEAN}
    \cup {[id |-> i] : i \in Ids}
    \cup {[id |-> i, completed |-> c] : i \in Ids, c \in BOOLEAN}

\* Map.set(key, value)
MapSet(map, key, value) ==
  [k \in DOMAIN map \cup {key} |-> IF k = key THEN value ELSE map[k]]

\* Map.delete(key)
MapDelete(map, key) ==
  [k \in DOMAIN map \ {key} |-> map[k]]

\* { ...task, ...updates }
Spread(task, updates) ==
  [f \in DOMAIN task \cup DOMAIN updates |->
     IF f \in DOMAIN updates THEN updates[f] ELSE task[f]]

\* MemStorage.createTask(insertTask)
createTask ==
  /\ currentTaskId <= MaxIds
  /\ \E completed \in BOOLEAN :
       \E id \in {currentTaskId} :
         /\ currentTaskId' = currentTaskId + 1
         /\ memTasks' = MapSet(memTasks, id, Spread([completed |-> completed], [id |-> id]))
         /\ memCall' = [op |-> "createTask", id |-> id, result |-> "task"]
  /\ UNCHANGED <<coreVars, configVars, syncVars, voiceVars, speechVars>>

\* a variant that stores the updates of a task that is not there
memUpdateTaskCreating(id, updates) ==
  /\ memTasks' = MapSet(memTasks, id,
                        IF id \in DOMAIN memTasks
                        THEN Spread(memTasks[id], updates)
                        ELSE Spread([id |-> id, completed |-> FALSE], updates))
  /\ memCall' = [op |-> "updateTask", id |-> id,
                 result |-> IF id \in DOMAIN memTasks THEN "task" ELSE "undefined"]
  /\ UNCHANGED currentTaskId

\* MemStorage.updateTask(id, updates)
memUpdateTask(id, updates) ==
  /\ IF id \notin DOMAIN memTasks
     THEN /\ memCall' = [op |-> "updateTask", id |-> id, result |-> "undefined"]
          /\ UNCHANGED memTasks
     ELSE /\ memTasks' = MapSet(memTasks, id, Spread(memTasks[id], updates))
          /\ memCall' = [op |-> "updateTask", id |-> id, result |-> "task"]
  /\ UNCHANGED currentTaskId

\* a call of updateTask
UpdateTaskCall ==
  /\ \E id \in Ids, updates \in Updates : memUpdateTask(id, updates)
  /\ UNCHANGED <<coreVars, configVars, syncVars, voiceVars, speechVars>>

\* MemStorage.deleteTask(id)
deleteTask ==
  /\ \E id \in Ids :
       /\ memTasks' = MapDelete(memTasks, id)
       /\ memCall' = [op |-> "deleteTask", id |-> id,
                      result |-> IF id \in DOMAIN memTasks THEN "true" ELSE "false"]
  /\ UNCHANGED currentTaskId
  /\ UNCHANGED <<coreVars, configVars, syncVars, voiceVars, speechVars>>

NextMem ==
  \/ createTask
  \/ UpdateTaskCall
  \/ deleteTask

SpecMem == InitMem /\ [][NextMem]_vars

(***************************************************************************)
(* SpecSpeech: a SpeechRecognitionService and the recognition object of    *)
(* the browser.  recognition.state is "null" where the browser has no      *)
(* speech API, "inactive" before start() and after the end event,          *)
(* "starting" between start() and the start event, "active" after it and   *)
(* "stopping" between stop() and the end event.  callbacks names the       *)
(* caller whose callbacks the four handlers of the object close over,      *)
(* starts counts the calls of recognition.start() and heard names the      *)
(* caller the last result went to.  start() on an object that is not       *)
(* inactive throws InvalidStateError.                                      *)
(***************************************************************************)
\* the components that call start(), each with callbacks of its own
Callers == {"a", "b"}

InitSpeech ==
  /\ CoreIdle
  /\ ConfigIdle /\ SyncIdle /\ VoiceIdle /\ MemIdle
  /\ isListening = FALSE
  /\ recognition \in {NewRecognition, [NewRecognition EXCEPT !.state = "null"]}
  /\ startCall = NoStart

\* what start() returns, for the caller that called it
StartReturns(caller, returned) ==
  startCall' = [n |-> startCall.n + 1, caller |-> caller, returned |-> returned]

\* SpeechRecognitionService.start(callbacks)
Start(caller) ==
  IF recognition.state = "null" \/ isListening
  THEN /\ StartReturns(caller, FALSE)
       /\ UNCHANGED <<isListening, recognition>>
  ELSE /\ recognition' = [recognition EXCEPT !.callbacks = caller,
                                             !.starts = @ + 1,
                                             !.state = IF @ = "inactive" THEN "starting" ELSE @]
       /\ StartReturns(caller, recognition.state = "inactive")
       /\ UNCHANGED isListening

\* a component calls start()
StartCall ==
  /\ startCall.n < MaxStarts
  /\ \E caller \in Callers : Start(caller)
  /\ UNCHANGED <<coreVars, configVars, syncVars, voiceVars, memVars>>

\* the browser fires the start event
OnStart ==
  /\ recognition.state = "starting"
  /\ recognition' = [recognition EXCEPT !.state = "active"]
  /\ isListening' = TRUE
  /\ UNCHANGED startCall
  /\ UNCHANGED <<coreVars, configVars, syncVars, voiceVars, memVars>>

\* the browser fires a result event
OnResult ==
  /\ recognition.state \in {"active", "stopping"}
  /\ recognition' = [recognition EXCEPT !.heard = recognition.callbacks]
  /\ UNCHANGED <<isListening, startCall>>
  /\ UNCHANGED <<coreVars, configVars, syncVars, voiceVars, memVars>>

\* the browser fires the end event, after an error or a stop() or by itself
OnEnd ==
  /\ recognition.state \in {"starting", "active", "stopping"}
  /\ recognition' = [recognition EXCEPT !.state = "inactive"]
  /\ isListening' = FALSE
  /\ UNCHANGED startCall
  /\ UNCHANGED <<coreVars, configVars, syncVars, voiceVars, memVars>>

\* SpeechRecognitionService.stop()
Stop ==
  /\ recognition.state # "null" /\ isListening
  /\ recognition' = [recognition EXCEPT !.state = "stopping"]
  /\ UNCHANGED <<isListening, startCall>>
  /\ UNCHANGED <<coreVars, configVars, syncVars, voiceVars, memVars>>

NextSpeech ==
  \/ StartCall
  \/ OnStart
  \/ OnResult
  \/ OnEnd
  \/ Stop

SpecSpeech == InitSpeech /\ [][NextSpeech]_vars

(***************************************************************************)
(* Properties of the matching loop (Spec, FairSpec)                        *)
(***************************************************************************)
\* the score the loop computes for the task at place i of the fetched list
Score(i) == calculateSimilarity(fetched[i].title, searchTitle)
BestScore == calculateSimilarity(bestMatch.title, searchTitle)
Places == 1..Len(fetched)
Selected == bestMatch # null
IsMaximal(i) == \A j \in Places : ~Gt(Score(j), Score(i))

\* C1: the loop selects a task exactly when some fetched task scores strictly
\* above 0.5, and the selected task itself scores strictly above 0.5; when
\* every score is at most 0.5 the result is none.
C1_ThresholdSelection ==
  pc = "done" =>
    /\ Selected <=> \E i \in Places : Gt(Score(i), MinSimilarity)
    /\ Selected => Gt(BestScore, MinSimilarity)

\* a task scoring exactly 0.5 was scanned and nothing was selected
C1_Witness ==
  /\ pc = "done"
  /\ \E i \in Places : Eq(Score(i), MinSimilarity)
  /\ ~Selected

\* C2: the selected task is one of the fetched tasks, no fetched task scores
\* higher, and bestSimilarity is the selected task's score.
C2_SelectedIsMaximum ==
  (pc = "done" /\ Selected) =>
    /\ \E i \in Places : fetched[i] = bestMatch
    /\ \A j \in Places : ~Gt(Score(j), BestScore)
    /\ Eq(bestSimilarity, BestScore)

\* the second task outscored a first task that was itself above the threshold
C2_Witness ==
  /\ pc = "done"
  /\ Len(fetched) >= 2
  /\ Gt(Score(1), MinSimilarity)
  /\ Gt(Score(2), Score(1))
  /\ bestMatch = fetched[2]

\* C3: among the tasks that share the maximal score the first in list order is
\* selected, so the result is a function of the query and the list order.
C3_FirstOfTiesWins ==
  (pc = "done" /\ Selected) =>
    \E i \in Places :
      /\ fetched[i] = bestMatch
      /\ IsMaximal(i)
      /\ \A j \in 1..(i - 1) : ~Eq(Score(j), Score(i))

\* two tasks tie on the maximal score and the earlier one was selected
C3_Witness ==
  /\ pc = "done"
  /\ Selected
  /\ \E i \in Places : \E j \in Places :
       /\ i < j
       /\ Eq(Score(i), Score(j))
       /\ IsMaximal(i)
       /\ fetched[i] = bestMatch

\* C5: when some fetched title equals the query after normalisation, the
\* selected task is such a task and its score is 1.0, whatever else is listed.
C5_ExactMatchWins ==
  (pc = "done" /\ \E i \in Places : normalize(fetched[i].title) = normalize(searchTitle)) =>
    /\ Selected
    /\ normalize(bestMatch.title) = normalize(searchTitle)
    /\ Eq(bestSimilarity, One)

\* the exact match differs from the query in case and blanks and stands
\* behind a task that matched by containment
C5_Witness ==
  /\ pc = "done"
  /\ Len(fetched) >= 2
  /\ Eq(Score(1), ContainsScore)
  /\ fetched[2].title # searchTitle
  /\ normalize(fetched[2].title) = normalize(searchTitle)
  /\ bestMatch = fetched[2]

\* C7: with a query that is empty after normalisation and only non-empty
\* titles, the loop selects nothing.
C7_EmptyQuerySelectsNothing ==
  ( /\ pc = "done"
    /\ normalize(searchTitle) = <<>>
    /\ \A i \in Places : normalize(fetched[i].title) # <<>> )
  => ~Selected

\* C10: every call the loop makes returns a number, from a table whose cells
\* were all written, and a started loop reaches its end.
C10_Total ==
  /\ [](\A i \in Places :
          /\ IsNumber(Score(i))
          /\ levenshteinDistance(normalize(fetched[i].title), normalize(searchTitle)) # NaN)
  /\ [](IsNumber(bestSimilarity))
  /\ ((pc = "scan") ~> (pc = "done"))

\* a loop over a blank title and a title scored by the blend has ended
C10_Witness ==
  /\ pc = "done"
  /\ \E i \in Places : fetched[i].title = <<" ">>
  /\ \E i \in Places : ~Eq(Score(i), One) /\ ~Eq(Score(i), ContainsScore)

\* the storage calls of the request: updateTask and voice_command activities
UpdateCalls == {i \in 1..Len(calls) : calls[i].op = "updateTask"}
ActivityCalls == {i \in 1..Len(calls) : calls[i].op = "createActivity"}

\* C11: with an empty candidate list the loop ends with no selected task,
\* whatever the query, and the handler then responds without calling
\* storage.updateTask and without changing the stored tasks.
C11_EmptyListSelectsNothing ==
  /\ []((pc = "done" /\ fetched = <<>>) => ~Selected)
  /\ [][(pc = "done" /\ fetched = <<>>) =>
          (tasks' = tasks /\ UpdateCalls' = {} /\ result' = null)]_vars

\* the loop over the empty list has ended for a query that is not empty
C11_Witness ==
  /\ pc = "done"
  /\ fetched = <<>>
  /\ normalize(searchTitle) # <<>>
  /\ ~Selected
  /\ UpdateCalls = {}

\* the best match and its score after the first n candidates of a list, as a
\* function of the query and the list alone
RECURSIVE bestAfter(_, _, _)
bestAfter(query, list, n) ==
  IF n = 0 THEN [bestMatch |-> null, bestSimilarity |-> Zero]
  ELSE The({IF isBetterMatch(sim, prev.bestSimilarity)
            THEN [bestMatch |-> list[n], bestSimilarity |-> sim]
            ELSE prev :
              prev \in {bestAfter(query, list, n - 1)},
              sim \in {calculateSimilarity(list[n].title, query)}})

\* C12: while the loop scans, the fetched list (order, length, fields), the
\* query, the stored tasks and the storage calls stay as they are, and the
\* best match so far is a function of the query and the candidates scanned.
C12_MatchingIsPure ==
  /\ [][pc = "scan" =>
          /\ fetched' = fetched
          /\ searchTitle' = searchTitle
          /\ tasks' = tasks
          /\ calls' = calls
          /\ result' = result]_vars
  /\ [](pc \in {"scan", "done"} =>
          /\ bestMatch = bestAfter(searchTitle, fetched, idx - 1).bestMatch
          /\ bestSimilarity = bestAfter(searchTitle, fetched, idx - 1).bestSimilarity)

\* a full list with a title that is not in normal form was scanned, a task was
\* selected, and the list is still the stored one
C12_Witness ==
  /\ pc = "done"
  /\ Len(fetched) = MaxTasks
  /\ \E i \in Places : fetched[i].title # normalize(fetched[i].title)
  /\ Selected
  /\ fetched = tasks

\* C15: the request calls storage.updateTask exactly when its loop selected a
\* task, once, with the id of that task, whose score is above the threshold;
\* when nothing was selected the stored tasks stay as they are, no
\* voice_command activity is created and the result of the response is null.
C15_UpdateIffSelected ==
  /\ [](pc \in {"scan", "done"} => calls = <<>> /\ result = null)
  /\ [][pc = "done" =>
          /\ (UpdateCalls' # {}) <=> Selected
          /\ Selected =>
                /\ Gt(BestScore, MinSimilarity)
                /\ Cardinality(UpdateCalls') = 1
                /\ \A i \in UpdateCalls' : calls'[i].id = bestMatch.id
                /\ result' # null /\ result'.id = bestMatch.id
          /\ ~Selected =>
                /\ tasks' = tasks
                /\ ActivityCalls' = {}
                /\ result' = null]_vars

\* the response to a command that selected the second task of the list: the
\* request called updateTask with its id and the result is that task
C15_Witness ==
  /\ pc = "idle"
  /\ Len(tasks) = 2
  /\ Cardinality(UpdateCalls) = 1
  /\ \A i \in UpdateCalls : calls[i].id = tasks[2].id
  /\ result = tasks[2]

(***************************************************************************)
(* Properties of concurrent requests (SpecConc)                            *)
(***************************************************************************)
InLoop(r) == reqs[r].pc \in {"scan", "done"}
\* what request r selects when it runs alone on the list it fetched
Alone(r) == bestAfter(reqs[r].searchTitle, reqs[r].fetched, reqs[r].idx - 1)

\* C16: however the loop iterations of two requests interleave with each
\* other and with writes to the storage, each request's best match is the one
\* it selects when it runs alone on the list it fetched, and no step of one
\* request changes the list, the query or the best match of the other.
C16_ConcurrentSelection ==
  /\ [](\A r \in Requests : InLoop(r) =>
          /\ reqs[r].bestMatch = Alone(r).bestMatch
          /\ reqs[r].bestSimilarity = Alone(r).bestSimilarity)
  /\ [][\A r \in Requests : \A q \in Requests \ {r} :
          (reqs'[q] # reqs[q]) => (reqs'[r] = reqs[r])]_vars

\* request r1 has scanned one of its two tasks and selected it; meanwhile
\* request r2 ran its whole loop on a list fetched after the storage changed
\* and selected another task
C16_Witness ==
  /\ reqs["r1"].pc = "scan"
  /\ reqs["r1"].idx = 2
  /\ Len(reqs["r1"].fetched) = 2
  /\ reqs["r1"].bestMatch # null
  /\ reqs["r2"].pc = "done"
  /\ reqs["r2"].bestMatch # null
  /\ reqs["r2"].bestMatch.id # reqs["r1"].bestMatch.id
  /\ reqs["r2"].fetched # reqs["r1"].fetched

(***************************************************************************)
(* Properties of saveMicrosoftConfig (SpecConfig)                          *)
(***************************************************************************)
\* C21: however the saveMicrosoftConfig calls of the routes interleave, the
\* microsoft_config table holds at most one row.
C21_AtMostOneConfigRow ==
  Cardinality(microsoftConfig) <= 1

(***************************************************************************)
(* Properties of syncWithMicrosoftTodo (SpecSync)                          *)
(***************************************************************************)
Linked(rows) == {row \in rows : row.microsoftId # "none"}
Unlinked(rows) == {row \in rows : row.microsoftId = "none"}
SyncReturned == sync.pc = "returned"
SyncFailed == SyncReturned /\ sync.result.error # "none"
SeqElems(seq) == {seq[i] : i \in 1..Len(seq)}

\* C22: up to the end of the page loop the tasks table is as it was when the
\* sync began, and a run that returns an error (no token, lists or page
\* request not ok, no lists, a rejected call) returns syncedCount 0 and
\* leaves the table as it was.
C22_FailedSyncLeavesTasks ==
  /\ sync.pc \in {"config", "lists", "pages", "clear"} => tasksTable = tasksBefore
  /\ SyncFailed =>
       /\ sync.result.syncedCount = 0
       /\ tasksTable = tasksBefore

\* the second page request was not ok after a first page with a task, and
\* the table still holds its linked rows
C22_Witness ==
  /\ SyncFailed
  /\ sync.result.error = "Tasks API error"
  /\ sync.pages >= 1
  /\ sync.allTasks # <<>>
  /\ Linked(tasksBefore) # {}
  /\ tasksTable = tasksBefore

\* C23: after a run without error the unlinked rows are those of before, the
\* linked rows are one per successfully imported task, each a remote task
\* whose status is not completed, each with completed = false, and
\* syncedCount is their number.
C23_SyncedTasks ==
  (SyncReturned /\ ~SyncFailed) =>
    /\ Unlinked(tasksTable) = Unlinked(tasksBefore)
    /\ {row.microsoftId : row \in Linked(tasksTable)} = SeqElems(sync.imported)
    /\ \A row \in Linked(tasksTable) :
         /\ row.completed = FALSE
         /\ \E i \in 1..Len(sync.allTasks) :
              sync.allTasks[i].id = row.microsoftId /\ sync.allTasks[i].status # "completed"
    /\ sync.result.syncedCount = Cardinality(Linked(tasksTable))
    /\ sync.result.syncedCount = Len(sync.imported)

\* the table held an unlinked row and two linked rows, the remote list a
\* completed and an uncompleted task; the uncompleted one was imported
C23_Witness ==
  /\ SyncReturned /\ ~SyncFailed
  /\ tasksBefore = StoredRows
  /\ \E i \in 1..Len(sync.allTasks) : sync.allTasks[i].status = "completed"
  /\ sync.result.syncedCount = 1
  /\ Cardinality(Linked(tasksTable)) = 1
  /\ \A row \in Linked(tasksTable) : row \notin tasksBefore
  /\ Unlinked(tasksTable) # {}

(***************************************************************************)
(* Properties of the voice command's lifecycle (SpecVoice, FairSpecVoice)  *)
(***************************************************************************)
\* the stored command of the request being handled is marked processed
CommandProcessed ==
  \E row \in voiceCommands : row.id = voice.commandId /\ row.processed

\* the stored command of the request being handled is not marked processed
CommandUnprocessed ==
  \E row \in voiceCommands : row.id = voice.commandId /\ ~row.processed

\* C24: a request with a transcription first stores its command with
\* processed = false; the command stays so until the AI interpretation has
\* returned and is marked processed before a task is created or updated,
\* whatever the intent; a request answered without a storage error leaves
\* its command processed, a processed command stays processed, and a
\* request whose command is stored is answered.
C24_CommandMarkedProcessed ==
  /\ [](voice.pc \in {"ai", "mark"} => CommandUnprocessed)
  /\ [](voice.pc \in {"execute", "update"} => CommandProcessed)
  /\ []((voice.pc = "responded" /\ voice.status = 200) => CommandProcessed)
  /\ [][(tasksTable' # tasksTable \/ tasksSerial' # tasksSerial)
          => (CommandProcessed /\ voice.pc \in {"execute", "update"})]_vars
  /\ [][\A row \in voiceCommands : row.processed => row \in voiceCommands']_vars
  /\ (voice.pc = "ai") ~> (voice.pc = "responded" /\ (voice.status = 200 => CommandProcessed))

\* a command of unknown intent was answered 200 and a task was updated
\* for another command, both commands being processed
C24_Witness ==
  /\ voice.pc = "responded" /\ voice.status = 200
  /\ voice.intent = "unknown"
  /\ voice.commandId = 2
  /\ \A row \in voiceCommands : row.processed
  /\ tasksTable \notin SUBSET StoredRows

\* C25: the update written to the matched task has completed = true for
\* complete_task; for update_task it has the completed value of the AI
\* response when there is one and the value the task had otherwise.
C25_WrittenCompleted ==
  [][voice'.written # NoUpdate =>
       /\ voice.pc = "update"
       /\ voice.intent \in {"update_task", "complete_task"}
       /\ \A task \in tasksTable :
            task.id = voice.bestMatch.id =>
              /\ voice'.written.id = task.id
              /\ voice.intent = "complete_task" => voice'.written.completed
              /\ (voice.intent = "update_task" /\ voice.aiCompleted = "true")
                   => voice'.written.completed
              /\ (voice.intent = "update_task" /\ voice.aiCompleted = "false")
                   => ~voice'.written.completed
              /\ (voice.intent = "update_task" /\ voice.aiCompleted = "absent")
                   => voice'.written.completed = task.completed
              /\ [task EXCEPT !.completed = voice'.written.completed] \in tasksTable'
    ]_vars

\* a completed task was matched by an update_task command whose response
\* carries completed = false, and the update was written
C25_Witness ==
  /\ voice.written # NoUpdate
  /\ voice.intent = "update_task"
  /\ voice.aiCompleted = "false"
  /\ voice.bestMatch.completed
  /\ \E task \in tasksTable : task.id = voice.written.id /\ ~task.completed

(***************************************************************************)
(* Properties of MemStorage (SpecMem)                                      *)
(***************************************************************************)
\* C26: every stored task's id is the key it is stored under, and the ids
\* createTask hands out are strictly increasing and never those of an
\* earlier task, deleted or not.
C26_IdsAreKeys ==
  /\ [](\A key \in DOMAIN memTasks : memTasks[key].id = key)
  /\ [][memCall'.op = "createTask" =>
          /\ memCall'.id >= currentTaskId
          /\ currentTaskId' > memCall'.id
          /\ memCall'.id \notin DOMAIN memTasks]_vars

\* C27: updateTask with an id that is not stored returns undefined and
\* leaves the store as it was; deleteTask returns true exactly when the id
\* was stored and leaves every other task as it was.
C27_MissingIds ==
  [][/\ (memCall'.op = "updateTask" /\ memCall'.id \notin DOMAIN memTasks)
          => (memCall'.result = "undefined" /\ memTasks' = memTasks)
     /\ memCall'.op = "deleteTask" =>
          /\ memCall'.result \in {"true", "false"}
          /\ memCall'.result = "true" <=> memCall'.id \in DOMAIN memTasks
          /\ DOMAIN memTasks' = DOMAIN memTasks \ {memCall'.id}
          /\ \A key \in DOMAIN memTasks' : memTasks'[key] = memTasks[key]
    ]_vars

\* updateTask was called with an id that is not stored, next to a task
\* that is, after another task was deleted
C27_Witness ==
  /\ memCall.op = "updateTask"
  /\ memCall.result = "undefined"
  /\ memCall.id \notin DOMAIN memTasks
  /\ DOMAIN memTasks # {}
  /\ Cardinality(DOMAIN memTasks) < currentTaskId - 1

(***************************************************************************)
(* Properties of SpeechRecognitionService (SpecSpeech)                     *)
(***************************************************************************)
\* C28: between a start() that returned true and the end event that
\* follows it, a further start() returns false, leaves the registered
\* callbacks in place and does not call recognition.start() again.
C28_StartIgnoredInSession ==
  [][(startCall'.n # startCall.n /\ recognition.state \in {"starting", "active", "stopping"})
       => /\ ~startCall'.returned
          /\ recognition'.callbacks = recognition.callbacks
          /\ recognition'.starts = recognition.starts]_vars

(***************************************************************************)
(* Properties of calculateSimilarity (SpecSim)                             *)
(***************************************************************************)
Returned == pcSim = "returned"
n1 == normalize(str1)
n2 == normalize(str2)
Contained == n1 # n2 /\ (includes(n1, n2) \/ includes(n2, n1))
Blended == n1 # n2 /\ ~includes(n1, n2) /\ ~includes(n2, n1)

\* C4: arguments that are equal after lowercasing and trimming score 1.0.
C4_ExactScoresOne ==
  (Returned /\ n1 = n2) => Eq(similarity, One)

\* the arguments differ as written and are equal once normalised
C4_Witness ==
  /\ Returned
  /\ str1 # str2
  /\ toLowerCase(str1) # toLowerCase(str2)
  /\ trim(str1) # trim(str2)
  /\ n1 = n2
  /\ Eq(similarity, One)

\* C6: unequal normalised strings of which one contains the other score 0.8,
\* however much longer the containing one is, and 0.8 is above the threshold.
C6_ContainmentScore ==
  (Returned /\ Contained) =>
    /\ Eq(similarity, ContainsScore)
    /\ Gt(similarity, MinSimilarity)

\* the documented example: title "Buy milk and eggs", query "Buy milk"
C6_Witness ==
  /\ Returned
  /\ str1 = BuyMilkAndEggs
  /\ str2 = BuyMilk
  /\ Eq(similarity, ContainsScore)

\* C8 as stated: every score of the blend is below the containment score 0.8.
C8_BlendBelowContainment ==
  (Returned /\ Blended) => Gt(ContainsScore, similarity)

\* C8 as amended: every score of the blend is below the exact-match score 1.0.
C8_BlendBelowExact ==
  (Returned /\ Blended) => Gt(One, similarity)

\* a score of the blend above the containment score
C8_Witness ==
  /\ Returned
  /\ Blended
  /\ Gt(similarity, ContainsScore)

\* C9: the score is a number in [0, 1], and it is 1 only for arguments that
\* are equal after normalisation.
C9_ScoreRange ==
  Returned =>
    /\ Geq(similarity, Zero)
    /\ Geq(One, similarity)
    /\ Eq(similarity, One) => n1 = n2

\* the lower end of the range is reached by the blend
C9_Witness ==
  /\ Returned
  /\ Blended
  /\ Eq(similarity, Zero)

\* In the handler's call str1 is the task title and str2 the query.
\* the ratio of the claim: the query words that have a matching title word
QueryWordRatio == wordSimilarity(split(n2), split(n1))
\* the ratio of the code: the words of the first argument that have a match
WordRatio == wordSimilarity(split(n1), split(n2))
FullDistance == levenshteinDistance(n1, n2)
LongerLen == Max(Len(n1), Len(n2))

\* C18: in the blended branch the score is built on the number of QUERY words
\* that have a matching word in the title, over the larger word count.
C18_QueryWordsCounted ==
  (Returned /\ Blended) =>
    Eq(similarity, weightedAverage(QueryWordRatio, charSimilarity(n1, n2)))

\* C19: in the blended branch the score is 0.7 times the word ratio plus 0.3
\* times (1 - distance / longer length), distance and length being those of
\* the full normalised strings.
C19_BlendFormula ==
  (Returned /\ Blended) =>
    /\ IsNumber(similarity)
    /\ FullDistance # NaN
    /\ LongerLen > 0
    /\ similarity.num * (10 * WordRatio.den * LongerLen)
         = (7 * WordRatio.num * LongerLen
              + 3 * (LongerLen - FullDistance) * WordRatio.den) * similarity.den

\* a pair, not in normal form, whose word ratio and character similarity are
\* both strictly between 0 and 1
C19_Witness ==
  /\ Returned
  /\ Blended
  /\ str1 # n1
  /\ Gt(WordRatio, Zero) /\ Gt(One, WordRatio)
  /\ FullDistance > 0 /\ FullDistance < LongerLen
  /\ Gt(similarity, Zero)

\* C20: the score of (str1, str2) is the score of (str2, str1).
C20_SimilaritySymmetric ==
  Returned => Eq(similarity, calculateSimilarity(str2, str1))

(***************************************************************************)
(* Properties of levenshteinDistance (SpecLev)                             *)
(***************************************************************************)
\* C13: the distance the call returned for (str1, str2) is the distance of
\* the swapped pair (str2, str1).
C13_LevenshteinSymmetric ==
  Returned => levDistance = levenshteinDistance(str2, str1)

\* two unequal strings of different lengths, neither empty, at distance 2 or more
C13_Witness ==
  /\ Returned
  /\ str1 # <<>>
  /\ str2 # <<>>
  /\ Len(str1) < Len(str2)
  /\ levDistance >= 2
  /\ levDistance = levenshteinDistance(str2, str1)

\* C14: a string is at distance 0 from itself, and the empty string is at
\* distance n from a string of length n, in either argument order.
C14_IdentityAndEmpty ==
  Returned =>
    /\ str1 = str2 => levDistance = 0
    /\ str1 = <<>> => levDistance = Len(str2)
    /\ str2 = <<>> => levDistance = Len(str1)

\* the empty string against a string of the greatest length
C14_Witness ==
  /\ Returned
  /\ str2 = <<>>
  /\ Len(str1) = MaxLen
  /\ levDistance = MaxLen

\* the reference definition of the edit distance: the least number of
\* insertions, deletions and substitutions of one character
RECURSIVE minEdits(_, _)
minEdits(a, b) ==
  IF a = <<>> THEN Len(b)
  ELSE IF b = <<>> THEN Len(a)
  ELSE IF Head(a) = Head(b) THEN minEdits(Tail(a), Tail(b))
  ELSE 1 + Min(minEdits(Tail(a), b),
               Min(minEdits(a, Tail(b)), minEdits(Tail(a), Tail(b))))

\* C17: the distance the call returned is the least number of one-character
\* insertions, deletions and substitutions that turn str1 into str2.
C17_MinimumEdits ==
  Returned => levDistance = minEdits(str1, str2)

\* strings of different lengths that share a letter and need two or more edits
C17_Witness ==
  /\ Returned
  /\ Len(str1) = MaxLen
  /\ Len(str2) = MaxLen - 1
  /\ \E i \in 1..Len(str1) : \E j \in 1..Len(str2) : str1[i] = str2[j]
  /\ ~includes(str1, str2)
  /\ levDistance = minEdits(str1, str2)
  /\ levDistance >= 2

====
